---------------------------- MODULE Spec2Model ----------------------------
(***************************************************************************)
(* The runtime trace demultiplexer of crates/cli/commands/src/profiler.rs: *)
(* TracingWriter (framing of the chrome-trace byte stream and grouping of  *)
(* records into per-block BlockData), the bounded dispatch channel and the *)
(* file-writing consumer task of TraceMonitor::run.                        *)
(*                                                                         *)
(* Text is a sequence of characters.  The characters of the model are the  *)
(* structural bytes the code looks at ("[", "]", ",", newline, space) and  *)
(* the braces of a JSON object; one member of an object ("cat":"x",        *)
(* together with the comma that separates it from its predecessor) is one  *)
(* character, except a member whose value is an array, which keeps its     *)
(* brackets as characters of their own.                                    *)
(***************************************************************************)
EXTENDS Integers, Sequences, FiniteSets, TLC

(***************************************************************************)
(* Bounds of the model.                                                    *)
(***************************************************************************)
\* records in a stream that is split at arbitrary byte positions
MaxRecs == 2
\* characters in one write chunk of such a stream
MaxChunk == 3
\* flush calls on such a stream
MaxFlush == 2
\* whole-record writes of the record-level specification
MaxEvents == 4
\* readings the millisecond clock can advance through
MaxTime == 1
\* blocks of the load specification (the channel holds Capacity of them)
LoadBlocks == 102
\* groups the consumer takes off the channel in the load specification
MaxConsume == 2

\* mpsc::channel(100)
Capacity == 100

(***************************************************************************)
(* Characters.                                                             *)
(***************************************************************************)
LBRACKET == "["
RBRACKET == "]"
COMMA == ","
NEWLINE == "\n"
LBRACE == "{"
RBRACE == "}"
ZERO == "0"

\* the record separator of write_all, ",\n"
Separator == <<COMMA, NEWLINE>>

CatBlock == "cat:block_profiler"
CatX == "cat:x"
CatY == "cat:y"
PhB == "ph:B"
PhE == "ph:E"
PhX == "ph:X"
PhI == "ph:I"
\* "args":{"block_num":"42"}, "args":{"block_num":"7"}, "args":{}
Args42 == "args:block_num:42"
Args7 == "args:block_num:7"
ArgsNone == "args:"
\* "ts":<i>, the position of the record in its stream
Ts(i) == "ts:" \o ToString(i)
\* the key of a member whose value is an array of zeros
ArrKey == "v:"

TsToks == {Ts(i) : i \in 1..(2 * LoadBlocks + MaxEvents + MaxRecs + 2)}
CatToks == {CatBlock, CatX, CatY}
PhToks == {PhB, PhE, PhX, PhI}
ArgsToks == {Args42, Args7, ArgsNone}
ScalarMembers == CatToks \cup PhToks \cup ArgsToks \cup TsToks

\* Option<String>
None == <<>>
Some(x) == <<x>>

(***************************************************************************)
(* str operations used by write_all and flush.                             *)
(***************************************************************************)
StartsWith(s, c) == Len(s) > 0 /\ s[1] = c
EndsWith(s, c) == Len(s) > 0 /\ s[Len(s)] = c

\* the position of the first ",\n" of s at or after i, 0 if there is none
RECURSIVE FindSep(_, _)
FindSep(s, i) ==
    IF i + 1 > Len(s) THEN 0
    ELSE IF s[i] = COMMA /\ s[i + 1] = NEWLINE THEN i
    ELSE FindSep(s, i + 1)

\* str::split(",\n"): the segments between the separators, never empty
RECURSIVE Split(_)
Split(s) ==
    LET p == FindSep(s, 1)
    IN  IF p = 0 THEN <<s>>
        ELSE <<SubSeq(s, 1, p - 1)>> \o Split(SubSeq(s, p + 2, Len(s)))

IsSpace(c) == c \in {NEWLINE, " "}

RECURSIVE TrimStartBy(_, _)
TrimStartBy(s, cs) ==
    IF Len(s) > 0 /\ s[1] \in cs THEN TrimStartBy(Tail(s), cs) ELSE s

RECURSIVE TrimEndBy(_, _)
TrimEndBy(s, cs) ==
    IF Len(s) > 0 /\ s[Len(s)] \in cs
    THEN TrimEndBy(SubSeq(s, 1, Len(s) - 1), cs) ELSE s

\* str::trim
Trim(s) == TrimEndBy(TrimStartBy(s, {NEWLINE, " "}), {NEWLINE, " "})
\* str::trim_matches(',')
TrimCommas(s) == TrimEndBy(TrimStartBy(s, {COMMA}), {COMMA})
\* part.trim().trim_matches(',')
Clean(s) == TrimCommas(Trim(s))

(***************************************************************************)
(* serde_json: from_str::<Value> and to_string(&Value).  An object is a    *)
(* map from key to member text (<<>> for an absent key); serde_json's map  *)
(* is ordered by key, so to_string writes the members in key order,        *)
(* whatever order the text that was parsed had them in.                    *)
(***************************************************************************)
Keys == <<"args", "cat", "ph", "ts", "v">>
KeySet == {Keys[i] : i \in 1..Len(Keys)}

KeyOf(tok) ==
    IF tok \in ArgsToks THEN "args"
    ELSE IF tok \in CatToks THEN "cat"
    ELSE IF tok \in PhToks THEN "ph"
    ELSE IF tok \in TsToks THEN "ts"
    ELSE "v"

EmptyMap == [k \in KeySet |-> <<>>]
ParseError == [kind |-> "error", m |-> EmptyMap]

\* the position of the "]" closing an array of zeros opened at s[i] = "[",
\* 0 if the text at i is not such an array
RECURSIVE ArrayEnd(_, _)
ArrayEnd(s, i) ==
    IF i > Len(s) THEN 0
    ELSE IF s[i] = RBRACKET THEN i
    ELSE IF s[i] = ZERO \/ IsSpace(s[i]) THEN ArrayEnd(s, i + 1)
    ELSE 0

\* the members of an object from position i of its interior s; a key that
\* occurs twice keeps its last value
RECURSIVE ParseMembers(_, _, _)
ParseMembers(s, i, m) ==
    IF i > Len(s) THEN [ok |-> TRUE, m |-> m]
    ELSE IF IsSpace(s[i]) THEN ParseMembers(s, i + 1, m)
    ELSE IF s[i] \in ScalarMembers
    THEN ParseMembers(s, i + 1, [m EXCEPT ![KeyOf(s[i])] = <<s[i]>>])
    ELSE IF s[i] = ArrKey /\ i + 1 <= Len(s) /\ s[i + 1] = LBRACKET
    THEN LET e == ArrayEnd(s, i + 2)
         IN  IF e = 0 THEN [ok |-> FALSE, m |-> m]
             ELSE ParseMembers(s, e + 1,
                      [m EXCEPT !["v"] = SelectSeq(SubSeq(s, i, e),
                                             LAMBDA c : ~IsSpace(c))])
    ELSE [ok |-> FALSE, m |-> m]

\* serde_json::from_str::<Value>: one whole JSON value, white space around
\* it allowed, anything else an error
FromStr(text) ==
    LET s == Trim(text)
        n == Len(s)
    IN  IF n = 0 THEN ParseError
        ELSE IF s = <<ZERO>> THEN [kind |-> "number", m |-> EmptyMap]
        ELSE IF s[1] = LBRACKET
        THEN IF n >= 2 /\ ArrayEnd(s, 2) = n
             THEN [kind |-> "array", m |-> EmptyMap] ELSE ParseError
        ELSE IF s[1] = LBRACE /\ n >= 2 /\ s[n] = RBRACE
        THEN LET r == ParseMembers(SubSeq(s, 2, n - 1), 1, EmptyMap)
             IN  IF r.ok THEN [kind |-> "object", m |-> r.m] ELSE ParseError
        ELSE ParseError

RECURSIVE WriteMembers(_, _)
WriteMembers(m, i) ==
    IF i > Len(Keys) THEN <<>> ELSE m[Keys[i]] \o WriteMembers(m, i + 1)

\* serde_json::to_string(&value) of an object
ToJsonString(value) == <<LBRACE>> \o WriteMembers(value.m, 1) \o <<RBRACE>>

\* map.get("cat").and_then(|v| v.as_str()).unwrap_or("")
CatStr(value) ==
    LET c == value.m["cat"]
    IN  IF c = <<CatBlock>> THEN "block_profiler"
        ELSE IF c = <<CatX>> THEN "x"
        ELSE IF c = <<CatY>> THEN "y"
        ELSE ""

\* map.get("ph").and_then(|v| v.as_str()).unwrap_or("")
PhStr(value) ==
    LET p == value.m["ph"]
    IN  IF p = <<PhB>> THEN "B"
        ELSE IF p = <<PhE>> THEN "E"
        ELSE IF p = <<PhX>> THEN "X"
        ELSE IF p = <<PhI>> THEN "I"
        ELSE ""

\* map.get("args").and_then(|v| v.get("block_num")).and_then(|v| v.as_str())
BlockNumOf(value) ==
    LET a == value.m["args"]
    IN  IF a = <<Args42>> THEN Some("42")
        ELSE IF a = <<Args7>> THEN Some("7")
        ELSE None

(***************************************************************************)
(* The environment of the process and env_flag.  A variable of the         *)
(* environment is unset, set to a value that is not Unicode, or set to a   *)
(* text; env is the environment, a function from names to such entries.    *)
(***************************************************************************)
Unset == [kind |-> "unset", v |-> <<>>]
NotUnicode == [kind |-> "not_unicode", v |-> <<>>]
SetTo(v) == [kind |-> "set", v |-> v]

\* std::env::var(name): Ok(v) for a variable set to Unicode text, Err
\* otherwise
EnvVar(env, name) == IF env[name].kind = "set" THEN Some(env[name].v) ELSE None

Upper ==
    <<"A", "B", "C", "D", "E", "F", "G", "H", "I", "J", "K", "L", "M",
      "N", "O", "P", "Q", "R", "S", "T", "U", "V", "W", "X", "Y", "Z">>
Lower ==
    <<"a", "b", "c", "d", "e", "f", "g", "h", "i", "j", "k", "l", "m",
      "n", "o", "p", "q", "r", "s", "t", "u", "v", "w", "x", "y", "z">>

\* u8::to_ascii_lowercase
ToAsciiLowercase(c) ==
    IF \E i \in 1..Len(Upper) : Upper[i] = c
    THEN Lower[CHOOSE i \in 1..Len(Upper) : Upper[i] = c]
    ELSE c

\* str::eq_ignore_ascii_case
EqIgnoreAsciiCase(a, b) ==
    /\ Len(a) = Len(b)
    /\ \A i \in 1..Len(a) : ToAsciiLowercase(a[i]) = ToAsciiLowercase(b[i])

TrueText == <<"t", "r", "u", "e">>
OneText == <<"1">>

\* EnvFlag comparing the value with "true" as it is written
EnvFlagCaseSensitive(env, name) ==
    LET r == EnvVar(env, name)
    IN  IF r = None THEN FALSE ELSE r[1] = TrueText \/ r[1] = OneText

\* env_flag(name)
EnvFlag(env, name) ==
    LET r == EnvVar(env, name)
    IN  IF r = None THEN FALSE
        ELSE EqIgnoreAsciiCase(r[1], TrueText) \/ r[1] = OneText

\* IsEnabled whatever the environment
IsEnabledAlways(env) == TRUE

\* TraceMonitor::is_enabled
IsEnabled(env) == EnvFlag(env, "ENABLE_CHROME_TRACE")

\* the environment in which only ENABLE_CHROME_TRACE may be set
EnvWith(entry) ==
    [name \in {"ENABLE_CHROME_TRACE", "ENABLE_SSA", "ENABLE_PARALLEL"} |->
        IF name = "ENABLE_CHROME_TRACE" THEN entry ELSE Unset]

(***************************************************************************)
(* TraceMonitor, the SystemDescriptor.  serde writes the fields of the     *)
(* struct in declaration order (chrome_guard is skipped); a field of type  *)
(* String or PathBuf is kept as its member text.                           *)
(***************************************************************************)
BoolMember(name, b) == name \o (IF b THEN ":true" ELSE ":false")
TimestampMember(str) == "timestamp:" \o str

DefaultMonitor ==
    [out_dir |-> "out_dir:block_perfetto",
     ssa_enabled |-> FALSE,
     parallel_enabled |-> FALSE,
     prewarm_enabled |-> FALSE,
     cli_version |-> "cli_version:v",
     timestamp |-> TimestampMember(""),
     is_release |-> TRUE,
     hardware |-> "hardware:hw"]

\* serde_json::to_string(&TraceMonitor)
MonitorToString(mon) ==
    <<LBRACE, mon.out_dir,
      BoolMember("ssa_enabled", mon.ssa_enabled),
      BoolMember("parallel_enabled", mon.parallel_enabled),
      BoolMember("prewarm_enabled", mon.prewarm_enabled),
      mon.cli_version, mon.timestamp,
      BoolMember("is_release", mon.is_release),
      mon.hardware, RBRACE>>

IsBoolMember(name, c) == c \in {BoolMember(name, TRUE), BoolMember(name, FALSE)}

\* serde_json::from_str::<TraceMonitor>: every field must be there
MonitorFromStr(text) ==
    IF /\ Len(text) = 10
       /\ text[1] = LBRACE
       /\ text[10] = RBRACE
       /\ IsBoolMember("ssa_enabled", text[3])
       /\ IsBoolMember("parallel_enabled", text[4])
       /\ IsBoolMember("prewarm_enabled", text[5])
       /\ IsBoolMember("is_release", text[8])
    THEN [ok |-> TRUE,
          mon |-> [out_dir |-> text[2],
                   ssa_enabled |-> text[3] = BoolMember("ssa_enabled", TRUE),
                   parallel_enabled |->
                       text[4] = BoolMember("parallel_enabled", TRUE),
                   prewarm_enabled |->
                       text[5] = BoolMember("prewarm_enabled", TRUE),
                   cli_version |-> text[6],
                   timestamp |-> text[7],
                   is_release |-> text[8] = BoolMember("is_release", TRUE),
                   hardware |-> text[9]]]
    ELSE [ok |-> FALSE, mon |-> DefaultMonitor]

(***************************************************************************)
(* TracingWriter.  A writer state st is a record of the fields of the      *)
(* struct (system_info, buffer, inside_block, current_block, partial_buf), *)
(* the queue of the channel its sender feeds (channel), whether a call has *)
(* panicked, and the history of what it did: the values handed to          *)
(* process_json (dispatched) and the clock reading at each of these calls  *)
(* (times), the BlockData the channel took (sent) and the BlockData        *)
(* try_send refused (dropped).                                             *)
(***************************************************************************)
\* TracingWriter::new, on a channel that is empty
NewWriter(system_info) ==
    [system_info |-> system_info,
     buffer |-> <<>>,
     inside_block |-> FALSE,
     current_block |-> None,
     partial_buf |-> <<>>,
     channel |-> <<>>,
     panicked |-> FALSE,
     dispatched |-> <<>>,
     times |-> <<>>,
     sent |-> <<>>,
     dropped |-> <<>>]

\* Snapshot with the timestamp the monitor was serialized with
SnapshotStale(mon, millis) == MonitorToString(mon)

\* the descriptor row of a block opened at clock reading millis
Snapshot(mon, millis) ==
    MonitorToString([mon EXCEPT !.timestamp = TimestampMember(ToString(millis))])

\* HasRoom letting one value more into the queue
HasRoomOneMore(channel) == Len(channel) <= Capacity

\* Sender::try_send: Err(Full) when the queue holds Capacity values
HasRoom(channel) == Len(channel) < Capacity

\* TrySend leaving the block open when the queue is full
TrySendReopening(st, block_data) ==
    IF HasRoom(st.channel)
    THEN [st EXCEPT !.channel = Append(@, block_data),
                    !.sent = Append(@, block_data)]
    ELSE [st EXCEPT !.dropped = Append(@, block_data),
                    !.inside_block = TRUE]

TrySend(st, block_data) ==
    IF HasRoom(st.channel)
    THEN [st EXCEPT !.channel = Append(@, block_data),
                    !.sent = Append(@, block_data)]
    ELSE [st EXCEPT !.dropped = Append(@, block_data)]

\* OnBegin with the descriptor row left out of the new buffer
OnBeginNoDescriptor(st, value, line_str, millis) ==
    LET system == MonitorFromStr(st.system_info)
    IN  IF ~system.ok THEN [st EXCEPT !.panicked = TRUE]
        ELSE [st EXCEPT
                !.inside_block = TRUE,
                !.buffer = <<line_str>>,
                !.current_block =
                    IF BlockNumOf(value) # None THEN BlockNumOf(value) ELSE @]

\* OnBegin opening the block without a descriptor when the snapshot does
\* not parse
OnBeginSkipDescriptor(st, value, line_str, millis) ==
    LET system == MonitorFromStr(st.system_info)
    IN  [st EXCEPT
            !.inside_block = TRUE,
            !.buffer = IF system.ok
                       THEN <<Snapshot(system.mon, millis), line_str>>
                       ELSE <<line_str>>,
            !.current_block =
                IF BlockNumOf(value) # None THEN BlockNumOf(value) ELSE @]

\* process_json, the branch of a block_profiler "B" record
OnBegin(st, value, line_str, millis) ==
    LET system == MonitorFromStr(st.system_info)
    IN  IF ~system.ok THEN [st EXCEPT !.panicked = TRUE]
        ELSE [st EXCEPT
                !.inside_block = TRUE,
                !.buffer = <<Snapshot(system.mon, millis), line_str>>,
                !.current_block =
                    IF BlockNumOf(value) # None THEN BlockNumOf(value) ELSE @]

\* OnEnd leaving the function when try_send fails
OnEndReturnOnFull(st) ==
    LET block_data == [block_num |-> st.current_block, data |-> st.buffer]
        after == TrySend([st EXCEPT !.inside_block = FALSE], block_data)
    IN  IF HasRoom(st.channel) THEN [after EXCEPT !.current_block = None]
        ELSE after

\* OnEnd leaving the block open after the group was sent
OnEndStayingOpen(st) ==
    LET block_data == [block_num |-> st.current_block, data |-> st.buffer]
        after == TrySend(st, block_data)
    IN  [after EXCEPT !.current_block = None]

\* process_json, the branch of a block_profiler "E" record inside a block,
\* after the record was pushed
OnEnd(st) ==
    LET block_data == [block_num |-> st.current_block, data |-> st.buffer]
        after == TrySend([st EXCEPT !.inside_block = FALSE], block_data)
    IN  [after EXCEPT !.current_block = None]

\* ProcessJson closing the block on an "E" record of any category
ProcessJsonAnyCatEnd(st, value, millis) ==
    LET st0 == [st EXCEPT !.dispatched = Append(@, value),
                          !.times = Append(@, millis)]
    IN  IF value.kind # "object" THEN st0
        ELSE LET line_str == ToJsonString(value)
                 cat == CatStr(value)
                 ph == PhStr(value)
             IN  IF cat = "block_profiler" /\ ph = "B"
                 THEN OnBegin(st0, value, line_str, millis)
                 ELSE IF st0.inside_block
                 THEN LET st1 == [st0 EXCEPT !.buffer = Append(@, line_str)]
                      IN  IF ph = "E" THEN OnEnd(st1) ELSE st1
                 ELSE st0

ProcessJson(st, value, millis) ==
    LET st0 == [st EXCEPT !.dispatched = Append(@, value),
                          !.times = Append(@, millis)]
    IN  IF value.kind # "object" THEN st0
        ELSE LET line_str == ToJsonString(value)
                 cat == CatStr(value)
                 ph == PhStr(value)
             IN  IF cat = "block_profiler" /\ ph = "B"
                 THEN OnBegin(st0, value, line_str, millis)
                 ELSE IF st0.inside_block
                 THEN LET st1 == [st0 EXCEPT !.buffer = Append(@, line_str)]
                      IN  IF cat = "block_profiler" /\ ph = "E"
                          THEN OnEnd(st1) ELSE st1
                 ELSE st0

\* "Remove leading '['" and "Remove the end ']'" of write_all
StripOpen(chunk) == IF StartsWith(chunk, LBRACKET) THEN Tail(chunk) ELSE chunk
StripClose(chunk) ==
    IF EndsWith(chunk, RBRACKET) THEN SubSeq(chunk, 1, Len(chunk) - 1)
    ELSE chunk

\* ProcessParts leaving the loop at the first part that does not parse
RECURSIVE ProcessPartsStopOnError(_, _, _, _)
ProcessPartsStopOnError(st, parts, i, millis) ==
    IF i > Len(parts) \/ st.panicked THEN st
    ELSE LET cleaned == Clean(parts[i])
             value == FromStr(cleaned)
         IN  IF cleaned = <<>>
             THEN ProcessPartsStopOnError(st, parts, i + 1, millis)
             ELSE IF value.kind = "error" THEN st
             ELSE ProcessPartsStopOnError(ProcessJson(st, value, millis),
                                          parts, i + 1, millis)

\* the for loop of write_all over parts[i..]; a panic ends the call
RECURSIVE ProcessParts(_, _, _, _)
ProcessParts(st, parts, i, millis) ==
    IF i > Len(parts) \/ st.panicked THEN st
    ELSE LET cleaned == Clean(parts[i])
             value == FromStr(cleaned)
             next == IF cleaned = <<>> \/ value.kind = "error" THEN st
                     ELSE ProcessJson(st, value, millis)
         IN  ProcessParts(next, parts, i + 1, millis)

\* WriteAll splitting the chunk alone, without the text kept from the
\* writes before it
WriteAllNoCarry(st, buf, millis) ==
    LET chunk == StripClose(StripOpen(buf))
        all == Split(chunk)
        n == Len(all)
    IN  ProcessParts([st EXCEPT !.partial_buf = all[n]],
                     SubSeq(all, 1, n - 1), 1, millis)

\* WriteAll dispatching the last segment as well when it is a whole record
WriteAllEager(st, buf, millis) ==
    LET chunk == StripClose(StripOpen(buf))
        all == Split(st.partial_buf \o chunk)
        n == Len(all)
        st1 == ProcessParts([st EXCEPT !.partial_buf = all[n]],
                            SubSeq(all, 1, n - 1), 1, millis)
        value == FromStr(Clean(all[n]))
    IN  IF st1.panicked \/ Clean(all[n]) = <<>> \/ value.kind = "error"
        THEN st1
        ELSE [ProcessJson(st1, value, millis) EXCEPT !.partial_buf = <<>>]

\* write_all(buf); the characters of the model are ASCII, which
\* String::from_utf8_lossy leaves as they are
WriteAll(st, buf, millis) ==
    LET chunk == StripClose(StripOpen(buf))
        all == Split(st.partial_buf \o chunk)
        n == Len(all)
    IN  ProcessParts([st EXCEPT !.partial_buf = all[n]],
                     SubSeq(all, 1, n - 1), 1, millis)

\* FlushWriter sending the open block as well
FlushWriterSealing(st, millis) ==
    LET cleaned == Clean(st.partial_buf)
        value == FromStr(cleaned)
        st1 == IF cleaned # <<>> /\ value.kind # "error"
               THEN ProcessJson(st, value, millis) ELSE st
        st2 == IF st1.inside_block THEN OnEnd(st1) ELSE st1
    IN  IF st2.panicked THEN st2 ELSE [st2 EXCEPT !.partial_buf = <<>>]

\* FlushWriter giving up the open block as well
FlushWriterResetting(st, millis) ==
    LET cleaned == Clean(st.partial_buf)
        value == FromStr(cleaned)
        st1 == IF cleaned # <<>> /\ value.kind # "error"
               THEN ProcessJson(st, value, millis) ELSE st
    IN  IF st1.panicked THEN st1
        ELSE [st1 EXCEPT !.partial_buf = <<>>,
                         !.inside_block = FALSE,
                         !.buffer = <<>>]

\* FlushWriter leaving the open block: the grouper is idle after it
FlushWriterLeavingBlock(st, millis) ==
    LET cleaned == Clean(st.partial_buf)
        value == FromStr(cleaned)
        st1 == IF cleaned # <<>> /\ value.kind # "error"
               THEN ProcessJson(st, value, millis) ELSE st
    IN  IF st1.panicked THEN st1
        ELSE [st1 EXCEPT !.partial_buf = <<>>,
                         !.inside_block = FALSE,
                         !.current_block = None]

\* FlushWriter without partial_buf.clear()
FlushWriterNoClear(st, millis) ==
    LET cleaned == Clean(st.partial_buf)
        value == FromStr(cleaned)
    IN  IF cleaned # <<>> /\ value.kind # "error"
        THEN ProcessJson(st, value, millis) ELSE st

\* FlushWriter keeping a tail that does not parse
FlushWriterKeepingTail(st, millis) ==
    LET cleaned == Clean(st.partial_buf)
        value == FromStr(cleaned)
    IN  IF cleaned # <<>> /\ value.kind # "error"
        THEN LET st1 == ProcessJson(st, value, millis)
             IN  IF st1.panicked THEN st1 ELSE [st1 EXCEPT !.partial_buf = <<>>]
        ELSE st

\* flush()
FlushWriter(st, millis) ==
    LET cleaned == Clean(st.partial_buf)
        value == FromStr(cleaned)
        st1 == IF cleaned # <<>> /\ value.kind # "error"
               THEN ProcessJson(st, value, millis) ELSE st
    IN  IF st1.panicked THEN st1 ELSE [st1 EXCEPT !.partial_buf = <<>>]

(***************************************************************************)
(* The consumer task of TraceMonitor::run.                                 *)
(***************************************************************************)
\* FileName without the fallback for a block that has no number
FileNameNoFallback(block_num) ==
    "block_" \o (IF block_num # None THEN block_num[1] ELSE "") \o ".json"

\* FileName giving every BlockData the name of a block without number
FileNameUnknown(block_num) == "block_unknown.json"

\* the file name of a BlockData
FileName(block_num) ==
    IF block_num # None THEN "block_" \o block_num[1] \o ".json"
    ELSE "block_unknown.json"

\* data.join(",\n")
RECURSIVE Join(_, _)
Join(data, i) ==
    IF i > Len(data) THEN <<>>
    ELSE IF i = Len(data) THEN data[i]
    ELSE data[i] \o Separator \o Join(data, i + 1)

\* JsonArray without the brackets around the joined entries
JsonArrayBare(data) == Join(data, 1)

\* format!("[\n{}\n]", block_data.data.join(",\n"))
JsonArray(data) ==
    <<LBRACKET, NEWLINE>> \o Join(data, 1) \o <<NEWLINE, RBRACKET>>

\* RecvValue handing out the newest value
RecvNewest(channel) == channel[Len(channel)]

\* RecvRest taking two values off the queue when it holds two
RecvRestSkipping(channel) ==
    IF Len(channel) >= 2 THEN Tail(Tail(channel)) ELSE Tail(channel)

\* Receiver::recv on a queue that is not empty: the oldest value
RecvValue(channel) == Head(channel)
RecvRest(channel) == Tail(channel)

\* the directory after one turn of the loop on block_data: File::create
\* fails and leaves the directory alone, or makes the file empty and
\* write_all fills it, or fails (the model keeps none of a failed write)
FilesAfter(dir, block_data, outcome) ==
    LET filename == FileName(block_data.block_num)
    IN  IF outcome = "create_failed" THEN dir
        ELSE IF outcome = "write_failed" THEN (filename :> <<>>) @@ dir
        ELSE (filename :> JsonArray(block_data.data)) @@ dir

Outcomes == {"ok", "create_failed", "write_failed"}

(***************************************************************************)
(* TraceMonitor::start and TraceMonitor::run.  The host h is a record of   *)
(* what a start call works on: the monitor and its chrome_guard, the       *)
(* process-wide subscriber (None until one is installed), whether out_dir  *)
(* exists, the two tasks of run, and the history: the start calls made     *)
(* (starts) and those that panicked (start_panics), the subscribers        *)
(* installed (installed), the channels built (channels), what run did to   *)
(* the directory (reset) and the files of the directory before the first   *)
(* start call (prior).                                                     *)
(***************************************************************************)
\* an out_dir that is not UTF-8: serde does not serialize such a path
BadPath == "out_dir:not_utf8"

\* serde_json::to_string(&self).unwrap_or_default()
ToStringOrDefault(mon) ==
    IF mon.out_dir = BadPath THEN <<>> ELSE MonitorToString(mon)

\* the host a process begins with: Default::default() leaves chrome_guard
\* None, and nothing is installed or spawned
FreshHost(mon, dir, prior) ==
    [monitor |-> mon,
     chrome_guard |-> None,
     subscriber |-> None,
     dir |-> dir,
     consumer |-> "none",
     flusher |-> "none",
     flusher_pc |-> "none",
     guard_lock |-> "free",
     flush_pending |-> FALSE,
     starts |-> 0,
     start_panics |-> 0,
     installed |-> <<>>,
     channels |-> 0,
     reset |-> "none",
     prior |-> prior]

\* FlusherStep with the lock guard dropped after the sleep, at the end of
\* the turn of the loop
FlusherStepHoldingLock(h) ==
    CASE h.flusher_pc = "lock" ->
             [h EXCEPT !.guard_lock = "flusher", !.flusher_pc = "flush"]
      [] h.flusher_pc = "flush" ->
             [h EXCEPT !.flush_pending = @ \/ h.chrome_guard # None,
                       !.flusher_pc = "sleep"]
      [] h.flusher_pc = "sleep" -> [h EXCEPT !.flusher_pc = "unlock"]
      [] h.flusher_pc = "unlock" ->
             [h EXCEPT !.guard_lock = "free", !.flusher_pc = "lock"]
      [] OTHER -> h

\* one step of the flusher task of run(): chrome_guard.lock().await takes
\* the lock ("lock"); with the lock held, guard.flush() is called if the
\* guard is there, which asks the backend thread to flush its writer
\* ("flush"); the inner block ends and the lock guard is dropped
\* ("unlock"); sleep(500 ms) ends ("sleep") and the loop starts again
FlusherStep(h) ==
    CASE h.flusher_pc = "lock" ->
             [h EXCEPT !.guard_lock = "flusher", !.flusher_pc = "flush"]
      [] h.flusher_pc = "flush" ->
             [h EXCEPT !.flush_pending = @ \/ h.chrome_guard # None,
                       !.flusher_pc = "unlock"]
      [] h.flusher_pc = "unlock" ->
             [h EXCEPT !.guard_lock = "free", !.flusher_pc = "sleep"]
      [] h.flusher_pc = "sleep" -> [h EXCEPT !.flusher_pc = "lock"]
      [] OTHER -> h

\* chrome_guard.lock().await returns when no one holds the lock
CanLock(h) == h.guard_lock = "free"

\* CanInstall accepting a subscriber when one is installed already
CanInstallAlways(subscriber) == TRUE

\* SubscriberInitExt::init sets the global default subscriber, which can be
\* done once in a process: it panics when one is installed already
CanInstall(subscriber) == subscriber = None

Install(h, layers) ==
    [h EXCEPT !.subscriber = Some(layers), !.installed = Append(@, layers)]

IoOutcomes == {"ok", "failed"}

\* run(): the directory is removed when it exists and made again, the
\* result of both is dropped; then the two tasks are spawned
Run(h, env, rm, mk) ==
    IF ~IsEnabled(env) THEN h
    ELSE LET left == h.dir /\ rm # "ok"
         IN  [h EXCEPT !.dir = left \/ mk = "ok",
                       !.reset = IF ~h.dir THEN "absent"
                                 ELSE IF rm = "ok" THEN "removed"
                                 ELSE "remove_failed",
                       !.consumer = "running",
                       !.flusher = "running",
                       !.flusher_pc = "lock"]

\* whether this start call reaches the end of start()
Completes(h, env) == IsEnabled(env) /\ CanInstall(h.subscriber)

\* start(prewarm) on the host
StartHost(h, env, prewarm, rm, mk) ==
    LET h0 == [h EXCEPT !.starts = @ + 1]
        h1 == [h0 EXCEPT !.channels = @ + 1]
    IN  IF ~IsEnabled(env)
        THEN IF CanInstall(h.subscriber) THEN Install(h0, "fmt")
             ELSE [h0 EXCEPT !.start_panics = @ + 1]
        ELSE IF ~CanInstall(h.subscriber)
             THEN [h1 EXCEPT !.start_panics = @ + 1]
             ELSE Run([Install(h1, "fmt+chrome") EXCEPT
                           !.chrome_guard = Some("guard"),
                           !.monitor.prewarm_enabled = prewarm],
                      env, rm, mk)

\* the writer of the installed chrome layer after start(prewarm)
StartWriter(h, env, w) ==
    IF Completes(h, env) THEN NewWriter(ToStringOrDefault(h.monitor)) ELSE w

\* RunFiles without the removal of the directory
RunFilesKept(h, env, dir, rm) == dir

\* the files of out_dir after run()
RunFiles(h, env, dir, rm) ==
    IF IsEnabled(env) /\ h.dir /\ rm = "ok" THEN <<>> ELSE dir

\* the files of out_dir after start(prewarm)
StartFiles(h, env, dir, rm) ==
    IF Completes(h, env) THEN RunFiles(h, env, dir, rm) ELSE dir

\* BlockLoopAfter leaving the loop on a failure
BlockLoopBreaks(outcome) == IF outcome = "ok" THEN "running" ELSE "ended"

\* the consumer's loop after one turn: it goes back to recv
BlockLoopAfter(outcome) == "running"

(***************************************************************************)
(* Records of the tracing backend, as it writes them.                      *)
(***************************************************************************)
Object(members) == <<LBRACE>> \o members \o <<RBRACE>>

\* {"cat":"x","ph":"X"}
RecX == Object(<<CatX, PhX>>)
\* {"cat":"block_profiler","ph":"B","args":{"block_num":"42"}}
RecB == Object(<<CatBlock, PhB, Args42>>)
\* {"cat":"y","ph":"I"}
RecY == Object(<<CatY, PhI>>)
\* {"cat":"block_profiler","ph":"E"}
RecE == Object(<<CatBlock, PhE>>)
\* {"v":[]}
RecA == Object(<<ArrKey, LBRACKET, RBRACKET>>)

\* "[" r1 ",\n" r2 ... "]": the whole stream of the records recs
RECURSIVE Joined(_, _)
Joined(recs, i) ==
    IF i > Len(recs) THEN <<>>
    ELSE IF i = Len(recs) THEN recs[i]
    ELSE recs[i] \o Separator \o Joined(recs, i + 1)

StreamOf(recs) == <<LBRACKET>> \o Joined(recs, 1) \o <<RBRACKET>>

SplitRecords == {RecX, RecB, RecE, RecA}

RECURSIVE SeqsUpTo(_, _)
SeqsUpTo(S, n) ==
    IF n = 0 THEN {<<>>}
    ELSE LET shorter == SeqsUpTo(S, n - 1)
         IN  shorter \cup {Append(q, x) : q \in shorter, x \in S}

SplitStreams == {StreamOf(recs) : recs \in SeqsUpTo(SplitRecords, MaxRecs)}

(***************************************************************************)
(* State.                                                                  *)
(***************************************************************************)
VARIABLES
    stream,     \* the whole byte stream the backend writes, when it is
                \* fixed from the start (<<>> when records are drawn
                \* write by write)
    input,      \* the part of stream not yet written
    writer,     \* the TracingWriter, its channel and its history
    now,        \* SystemTime::now(), in milliseconds
    files,      \* the output directory: file name -> content
    written,    \* history of the consumer: one entry per BlockData received
    nFlush,     \* flush calls so far
    lastOp,     \* the last call made on the writer
    chunksLeft, \* the write calls the rest of the stream is still to be
                \* cut into, when their number is fixed (0 when it is not)
    environ,    \* the environment of the process
    host        \* the monitor, the subscriber of the process, the tasks

vars ==
    <<stream, input, writer, now, files, written, nFlush, lastOp, chunksLeft,
      environ, host>>

Min(a, b) == IF a < b THEN a ELSE b

\* the writer before start() has built one
NoWriter == NewWriter(<<>>)

\* the process whose ENABLE_CHROME_TRACE is "1", after its first call of
\* start(false): the writer is built on the serialized monitor, run()
\* leaves the output directory empty
InitWith(s, chunks) ==
    /\ chunksLeft = chunks
    /\ stream = s
    /\ input = s
    /\ environ = EnvWith(SetTo(OneText))
    /\ LET fresh == FreshHost(DefaultMonitor, FALSE, <<>>)
       IN  /\ host = StartHost(fresh, environ, FALSE, "ok", "ok")
           /\ writer = StartWriter(fresh, environ, NoWriter)
           /\ files = StartFiles(fresh, environ, <<>>, "ok")
    /\ now = 0
    /\ written = <<>>
    /\ nFlush = 0
    /\ lastOp = "new"

\* one write call of the backend with the bytes buf
WriteCall(buf) ==
    /\ ~writer.panicked
    /\ writer' = WriteAll(writer, buf, now)
    /\ lastOp' = "write"
    /\ UNCHANGED <<stream, now, files, written, nFlush, environ, host>>

\* the next k bytes of the stream are written
WriteChunk(k) ==
    /\ k \in 1..Len(input)
    /\ input' = SubSeq(input, k + 1, Len(input))
    /\ WriteCall(SubSeq(input, 1, k))
    /\ UNCHANGED chunksLeft

\* one flush call (the backend's at shutdown, or one the periodic flusher
\* causes)
Flush ==
    /\ ~writer.panicked
    /\ nFlush < MaxFlush
    /\ writer' = FlushWriter(writer, now)
    /\ nFlush' = nFlush + 1
    /\ lastOp' = "flush"
    /\ UNCHANGED <<stream, input, now, files, written, chunksLeft, environ,
                   host>>

\* one turn of the consumer's loop; File::create fails when out_dir does
\* not exist
Consume(outcome) ==
    /\ host.consumer = "running"
    /\ writer.channel # <<>>
    /\ host.dir \/ outcome = "create_failed"
    /\ host' = [host EXCEPT !.consumer = BlockLoopAfter(outcome)]
    /\ LET block_data == RecvValue(writer.channel)
       IN  /\ files' = FilesAfter(files, block_data, outcome)
           /\ written' = Append(written,
                                [block_data |-> block_data,
                                 outcome |-> outcome])
    /\ writer' = [writer EXCEPT !.channel = RecvRest(@)]
    /\ UNCHANGED <<stream, input, now, nFlush, lastOp, chunksLeft, environ>>

\* the clock advances
Tick ==
    /\ now < MaxTime
    /\ now' = now + 1
    /\ UNCHANGED <<stream, input, writer, files, written, nFlush, lastOp,
                   chunksLeft, environ, host>>

(***************************************************************************)
(* Spec: a stream of up to MaxRecs records, written in chunks of up to     *)
(* MaxChunk bytes cut at any position, with flush calls in between.        *)
(***************************************************************************)
Init == \E s \in SplitStreams : InitWith(s, 0)

Write == \E k \in 1..Min(MaxChunk, Len(input)) : WriteChunk(k)

ConsumeAny == \E outcome \in Outcomes : Consume(outcome)

Next == Write \/ Flush \/ ConsumeAny \/ Tick

Spec == Init /\ [][Next]_vars

(***************************************************************************)
(* SpecScenario: the end-to-end stream                                     *)
(*   [ x ,\n Begin(42) ,\n y ,\n End ]                                     *)
(* cut into ScenarioChunks chunks, none of them empty, at any positions,   *)
(* and then flushed by the backend.                                        *)
(***************************************************************************)
ScenarioChunks == 5

ScenarioStream == StreamOf(<<RecX, RecB, RecY, RecE>>)

InitScenario == InitWith(ScenarioStream, ScenarioChunks)

\* the next chunk: the last one takes what is left, the others leave at
\* least one byte to each chunk after them
ScenarioWrite ==
    \E k \in 1..Len(input) :
        /\ chunksLeft > 0
        /\ IF chunksLeft = 1 THEN k = Len(input)
           ELSE Len(input) - k >= chunksLeft - 1
        /\ input' = SubSeq(input, k + 1, Len(input))
        /\ chunksLeft' = chunksLeft - 1
        /\ WriteCall(SubSeq(input, 1, k))

ScenarioFlush == input = <<>> /\ Flush

NextScenario == ScenarioWrite \/ ScenarioFlush \/ ConsumeAny \/ Tick

SpecScenario == InitScenario /\ [][NextScenario]_vars

(***************************************************************************)
(* SpecBlocks: up to MaxEvents records, each written whole with the        *)
(* separator after it, while the clock advances and the consumer runs.     *)
(* The i-th record of a run carries "ts":i.                                *)
(***************************************************************************)
\* Begin of block 42, Begin without a block number, End, and two records
\* of another category with the phases of Begin and End
BeginRec(i) == Object(<<CatBlock, PhB, Args42, Ts(i)>>)
BeginNoIdRec(i) == Object(<<CatBlock, PhB, Ts(i)>>)
EndRec(i) == Object(<<CatBlock, PhE, Ts(i)>>)
OtherBRec(i) == Object(<<CatX, PhB, Ts(i)>>)
OtherERec(i) == Object(<<CatX, PhE, Ts(i)>>)

EventRecords(i) ==
    {BeginRec(i), BeginNoIdRec(i), EndRec(i), OtherBRec(i), OtherERec(i)}

\* the chunk that carries the whole record rec: the first chunk of a
\* stream opens the array
RecordChunk(rec) ==
    (IF lastOp = "new" THEN <<LBRACKET>> ELSE <<>>) \o rec \o Separator

InitBlocks == InitWith(<<>>, 0)

WriteRecord ==
    /\ Len(writer.dispatched) < MaxEvents
    /\ \E rec \in EventRecords(Len(writer.dispatched) + 1) :
           WriteCall(RecordChunk(rec))
    /\ UNCHANGED <<input, chunksLeft>>

NextBlocks == WriteRecord \/ ConsumeAny \/ Tick

SpecBlocks == InitBlocks /\ [][NextBlocks]_vars

(***************************************************************************)
(* SpecLoad: LoadBlocks blocks of two records each, Begin and End, written *)
(* record by record, more than the channel holds, while the consumer takes *)
(* up to MaxConsume of them.                                               *)
(***************************************************************************)
LoadRecord(i) == IF i % 2 = 1 THEN BeginRec(i) ELSE EndRec(i)

\* the chunk of the next write
LoadChunk == RecordChunk(LoadRecord(Len(writer.dispatched) + 1))

LoadWrite ==
    /\ Len(writer.dispatched) < 2 * LoadBlocks
    /\ WriteCall(LoadChunk)
    /\ UNCHANGED <<input, chunksLeft>>

LoadConsume == Len(written) < MaxConsume /\ Consume("ok")

NextLoad == LoadWrite \/ LoadConsume

SpecLoad == InitBlocks /\ [][NextLoad]_vars

(***************************************************************************)
(* SpecStart: a process from its beginning.  ENABLE_CHROME_TRACE is unset  *)
(* or set to some value, out_dir is absent, empty or holds a file of an    *)
(* earlier run; start() is called up to MaxStarts times, and up to         *)
(* MaxStartEvents records are written to the writer it built while the     *)
(* two tasks of run() take their turns.                                    *)
(***************************************************************************)
MaxStarts == 2
MaxStartEvents == 2
MaxStartFlush == 1

EnvTexts ==
    {TrueText, <<"T", "R", "U", "E">>, <<"T", "r", "u", "e">>,
     <<"t", "R", "u", "E">>, OneText,
     <<>>, <<"0">>, <<"1", "1">>, <<"0", "1">>, <<" ", "1">>,
     <<"t", "r", "u", "e", " ">>, <<"t", "r", "u">>, <<"t">>,
     <<"T", "R", "U", "E", "1">>, <<"f", "a", "l", "s", "e">>,
     <<"y", "e", "s">>, <<"o", "n">>}

EnvEntries == {Unset, NotUnicode} \cup {SetTo(v) : v \in EnvTexts}

\* what a file left by an earlier run holds
Stale == <<"s", "t", "a", "l", "e">>

\* out_dir before the first start call
PriorDirs ==
    {[dir |-> FALSE, files |-> <<>>],
     [dir |-> TRUE, files |-> <<>>],
     [dir |-> TRUE, files |-> ("block_42.json" :> Stale)],
     [dir |-> TRUE, files |-> ("block_9.json" :> Stale)]}

InitStart ==
    /\ \E entry \in EnvEntries : environ = EnvWith(entry)
    /\ \E out_dir \in {DefaultMonitor.out_dir, BadPath}, p \in PriorDirs :
           /\ host = FreshHost([DefaultMonitor EXCEPT !.out_dir = out_dir],
                               p.dir, p.files)
           /\ files = p.files
    /\ writer = NoWriter
    /\ stream = <<>>
    /\ input = <<>>
    /\ now = 0
    /\ written = <<>>
    /\ nFlush = 0
    /\ lastOp = "none"
    /\ chunksLeft = 0

\* one call of start(prewarm)
StartCall ==
    /\ host.starts < MaxStarts
    /\ \E prewarm \in BOOLEAN, rm \in IoOutcomes, mk \in IoOutcomes :
           /\ host' = StartHost(host, environ, prewarm, rm, mk)
           /\ files' = StartFiles(host, environ, files, rm)
    /\ writer' = StartWriter(host, environ, writer)
    /\ lastOp' = IF Completes(host, environ) THEN "new" ELSE lastOp
    /\ UNCHANGED <<stream, input, now, written, nFlush, chunksLeft, environ>>

StartRecords(i) == {BeginRec(i), EndRec(i)}

\* the chrome layer writes one record to the writer start() gave it
StartWrite ==
    /\ host.chrome_guard # None
    /\ Len(writer.dispatched) < MaxStartEvents
    /\ \E rec \in StartRecords(Len(writer.dispatched) + 1) :
           WriteCall(RecordChunk(rec))
    /\ UNCHANGED <<input, chunksLeft>>

\* one turn of the flusher's loop with the guard in place
StartFlush ==
    /\ host.flusher = "running"
    /\ host.chrome_guard # None
    /\ nFlush < MaxStartFlush
    /\ Flush

\* the channel is closed when its only Sender, a field of the writer, is
\* dropped: a panic of a write call drops the writer
ChannelClosed(w) == w.panicked

\* recv() gives None on a channel that is closed and empty: the loop ends
ConsumerEnds ==
    /\ host.consumer = "running"
    /\ writer.channel = <<>>
    /\ ChannelClosed(writer)
    /\ host' = [host EXCEPT !.consumer = "ended"]
    /\ UNCHANGED <<stream, input, writer, now, files, written, nFlush, lastOp,
                   chunksLeft, environ>>

NextStart == StartCall \/ StartWrite \/ StartFlush \/ ConsumeAny \/ ConsumerEnds

SpecStart == InitStart /\ [][NextStart]_vars

(***************************************************************************)
(* SpecTags: up to MaxTagEvents records, each a Begin of block 42, a Begin *)
(* of block 7, a Begin without a block number or an End, written whole     *)
(* while the consumer runs.                                                *)
(***************************************************************************)
MaxTagEvents == 4

Begin7Rec(i) == Object(<<CatBlock, PhB, Args7, Ts(i)>>)

TagRecords(i) == {BeginRec(i), Begin7Rec(i), BeginNoIdRec(i), EndRec(i)}

TagWrite ==
    /\ Len(writer.dispatched) < MaxTagEvents
    /\ \E rec \in TagRecords(Len(writer.dispatched) + 1) :
           WriteCall(RecordChunk(rec))
    /\ UNCHANGED <<input, chunksLeft>>

NextTags == TagWrite \/ ConsumeAny

SpecTags == InitBlocks /\ [][NextTags]_vars

(***************************************************************************)
(* SpecInside: the records of SpecBlocks, each written whole, with flush   *)
(* calls made while a block is open.                                       *)
(***************************************************************************)
FlushInside == writer.inside_block /\ Flush

NextInside == WriteRecord \/ FlushInside

SpecInside == InitBlocks /\ [][NextInside]_vars

(***************************************************************************)
(* SpecMalformed: a stream of up to MaxBadRecs records, some of them not   *)
(* JSON, written in chunks of up to MaxChunk bytes cut at any position or  *)
(* in one call for the rest, and flushed by the backend at its end.        *)
(***************************************************************************)
MaxBadRecs == 3

\* {"cat":"x","ph":"X" without its closing brace
BadOpen == <<LBRACE, CatX, PhX>>
\* "cat":"y"} without its opening brace
BadClose == <<CatY, RBRACE>>
WellFormedRecords == {RecX, RecB}
MalformedRecords == {BadOpen, BadClose}

MalformedStreams ==
    {StreamOf(recs) :
        recs \in SeqsUpTo(WellFormedRecords \cup MalformedRecords, MaxBadRecs)}

InitMalformed == \E s \in MalformedStreams : InitWith(s, 0)

\* the rest of the stream arrives in one write call
WriteRest == input # <<>> /\ WriteChunk(Len(input))

NextMalformed == Write \/ WriteRest \/ ScenarioFlush

SpecMalformed == InitMalformed /\ [][NextMalformed]_vars

(***************************************************************************)
(* SpecFlusher: the flusher task of run() step by step, next to the        *)
(* backend thread, which writes records and serves the flush requests. The *)
(* runtime keeps running the task and the timer of its sleep fires: every  *)
(* step of the flusher is weakly fair, and so is the backend's flush.      *)
(***************************************************************************)
FlusherAt(pc) ==
    /\ host.flusher = "running"
    /\ host.flusher_pc = pc
    /\ host' = FlusherStep(host)
    /\ UNCHANGED <<stream, input, writer, now, files, written, nFlush, lastOp,
                   chunksLeft, environ>>

FlusherLock == CanLock(host) /\ FlusherAt("lock")
FlusherFlush == FlusherAt("flush")
FlusherUnlock == FlusherAt("unlock")
FlusherWake == FlusherAt("sleep")

\* the backend thread takes a flush request and calls flush() on the writer
BackendFlush ==
    /\ host.flush_pending
    /\ ~writer.panicked
    /\ writer' = FlushWriter(writer, now)
    /\ host' = [host EXCEPT !.flush_pending = FALSE]
    /\ nFlush' = IF nFlush < MaxFlush THEN nFlush + 1 ELSE nFlush
    /\ lastOp' = "flush"
    /\ UNCHANGED <<stream, input, now, files, written, chunksLeft, environ>>

NextFlusher ==
    \/ StartWrite
    \/ FlusherLock \/ FlusherFlush \/ FlusherUnlock \/ FlusherWake
    \/ BackendFlush

SpecFlusher ==
    /\ InitBlocks
    /\ [][NextFlusher]_vars
    /\ WF_vars(FlusherLock) /\ WF_vars(FlusherFlush)
    /\ WF_vars(FlusherUnlock) /\ WF_vars(FlusherWake)
    /\ WF_vars(BackendFlush)

(***************************************************************************)
(* SpecInterleaved: a stream of up to MaxRecs records, the i-th carrying   *)
(* "ts":i, written in chunks of up to MaxChunk bytes cut at any position,  *)
(* with up to MaxFlush flush calls at any point between the write calls.   *)
(***************************************************************************)
StampedRecords(i) == {BeginRec(i), OtherERec(i)}

StampedSeqs ==
    UNION {{recs \in [1..n -> UNION {StampedRecords(i) : i \in 1..n}] :
                \A i \in 1..n : recs[i] \in StampedRecords(i)} :
           n \in 0..MaxRecs}

InitInterleaved == \E recs \in StampedSeqs : InitWith(StreamOf(recs), 0)

NextInterleaved == Write \/ Flush

SpecInterleaved == InitInterleaved /\ [][NextInterleaved]_vars

(***************************************************************************)
(* SpecGroups: up to MaxEvents records written as the chrome layer writes  *)
(* them, "[" before the first and the separator before every other one, so *)
(* that the last record written waits in partial_buf for the next write or *)
(* for a flush; up to MaxFlush flush calls come at any point.              *)
(***************************************************************************)
\* the chunk that carries rec after what comes before it in the array
LeadingChunk(rec) ==
    (IF lastOp = "new" THEN <<LBRACKET>> ELSE Separator) \o rec

\* one more record is written; those written so far are the ones dispatched
\* and the one that waits in partial_buf
WriteLeading ==
    LET written_recs ==
            Len(writer.dispatched) + (IF writer.partial_buf # <<>> THEN 1 ELSE 0)
    IN  /\ written_recs < MaxEvents
        /\ \E rec \in EventRecords(written_recs + 1) :
               WriteCall(LeadingChunk(rec))
        /\ UNCHANGED <<input, chunksLeft>>

NextGroups == WriteLeading \/ Flush

SpecGroups == InitBlocks /\ [][NextGroups]_vars

(***************************************************************************)
(* SpecDrain: SpecBlocks with the consumer task scheduled fairly: the      *)
(* runtime polls a spawned task whose recv() has a value to return.        *)
(***************************************************************************)
SpecDrain == InitBlocks /\ [][NextBlocks]_vars /\ WF_vars(ConsumeAny)

(***************************************************************************)
(* SpecDrop: LoadBlocks blocks of two records each, Begin and End, written *)
(* record by record, more than the channel holds, while the consumer takes *)
(* up to MaxConsume of them; the blocks carry block number 42 and no block *)
(* number in turn.                                                         *)
(***************************************************************************)
DropRecord(i) ==
    IF i % 2 = 0 THEN EndRec(i)
    ELSE IF i % 4 = 1 THEN BeginRec(i) ELSE BeginNoIdRec(i)

DropWrite ==
    /\ Len(writer.dispatched) < 2 * LoadBlocks
    /\ WriteCall(RecordChunk(DropRecord(Len(writer.dispatched) + 1)))
    /\ UNCHANGED <<input, chunksLeft>>

NextDrop == DropWrite \/ LoadConsume

SpecDrop == InitBlocks /\ [][NextDrop]_vars

(***************************************************************************)
(* Claims.                                                                 *)
(***************************************************************************)
\* the bytes written so far
Consumed == SubSeq(stream, 1, Len(stream) - Len(input))

\* the whole stream has been written and the closing flush, the only flush
\* of the run, has been made
ClosedByOneFlush == input = <<>> /\ lastOp = "flush" /\ nFlush = 1

\* the values dispatched when text is written as one chunk and flushed
WholeDispatch(text) ==
    FlushWriter(WriteAll(NewWriter(writer.system_info), text, 0), 0).dispatched

\* the records of the scenario as serde_json writes them back
JsonB == Object(<<Args42, CatBlock, PhB>>)
JsonY == Object(<<CatY, PhI>>)
JsonE == Object(<<CatBlock, PhE>>)
JsonX == Object(<<CatX, PhX>>)

\* exactly one BlockData was sent: block 42 with the descriptor, Begin, y, End
ScenarioGroupSent ==
    /\ writer.dropped = <<>>
    /\ \E t \in 0..MaxTime :
           writer.sent =
               <<[block_num |-> Some("42"),
                  data |-> <<Snapshot(DefaultMonitor, t), JsonB, JsonY, JsonE>>]>>
    /\ \A g \in 1..Len(writer.sent) :
           \A i \in 1..Len(writer.sent[g].data) : writer.sent[g].data[i] # JsonX

\* C1: framing correctness. Whatever the chunks a stream was cut into, once
\* all of them are written and the closing flush is made, the sequence of
\* values dispatched to process_json is the one the unsplit stream gives
\* when it is written as a single chunk and flushed.
C1_FramingCorrect ==
    ClosedByOneFlush => writer.dispatched = WholeDispatch(stream)

\* C2 as stated: once the chunks the scenario stream was cut into have been
\* written, exactly one BlockData has been sent, for block 42, with
\* data = [descriptor, Begin, y, End], and x is in no group.
C2_ScenarioAfterWrites == input = <<>> => ScenarioGroupSent

\* C2 amended: once the chunks have been written and the backend has
\* flushed, exactly one BlockData has been sent, for block 42, with
\* data = [descriptor, Begin, y, End], and x is in no group. Until the
\* flush the End record waits in partial_buf and nothing has been sent.
C2_ScenarioAfterFlush ==
    /\ (input = <<>> /\ nFlush > 0) => ScenarioGroupSent
    /\ nFlush = 0 => writer.sent = <<>>

C2_Witness ==
    /\ input = <<>>
    /\ chunksLeft = 0
    /\ nFlush > 0
    /\ Len(writer.sent) = 1

\* the values dispatched so far, and the block markers among them
Dispatched == writer.dispatched

IsBeginValue(v) ==
    v.kind = "object" /\ v.m["cat"] = <<CatBlock>> /\ v.m["ph"] = <<PhB>>
IsEndValue(v) ==
    v.kind = "object" /\ v.m["cat"] = <<CatBlock>> /\ v.m["ph"] = <<PhE>>

BeginPositions == {i \in 1..Len(Dispatched) : IsBeginValue(Dispatched[i])}
EndPositions == {i \in 1..Len(Dispatched) : IsEndValue(Dispatched[i])}

\* the sequence has exactly one Begin and one End, the Begin first
OnePair ==
    /\ Cardinality(BeginPositions) = 1
    /\ Cardinality(EndPositions) = 1
    /\ \A b \in BeginPositions : \A e \in EndPositions : b < e

PairBegin == CHOOSE b \in BeginPositions : TRUE
PairEnd == CHOOSE e \in EndPositions : TRUE

\* a descriptor row: the monitor as serialized at start, with the
\* timestamp of some clock reading
IsDescriptor(text) == \E t \in 0..MaxTime : text = Snapshot(DefaultMonitor, t)

\* C3: grouping correctness. When the records dispatched hold exactly one
\* block_profiler Begin/End pair, exactly one BlockData has been sent and
\* none refused; its data is the descriptor followed by the records from
\* Begin through End in order, and no record outside the pair is in it.
C3_GroupingCorrect ==
    OnePair =>
        /\ writer.dropped = <<>>
        /\ Len(writer.sent) = 1
        /\ LET data == writer.sent[1].data
           IN  /\ Len(data) = PairEnd - PairBegin + 2
               /\ IsDescriptor(data[1])
               /\ \A k \in PairBegin..PairEnd :
                      data[k - PairBegin + 2] = ToJsonString(Dispatched[k])
               /\ \A k \in (1..Len(Dispatched)) \ (PairBegin..PairEnd) :
                      \A j \in 1..Len(data) :
                          data[j] # ToJsonString(Dispatched[k])

\* one record before the pair, one between Begin and End, the group sent
C3_Witness ==
    /\ OnePair
    /\ PairBegin = 2
    /\ PairEnd = 4
    /\ Len(writer.sent) = 1

\* C4 as stated: with N other records between Begin and End, the BlockData
\* sent has N + 2 entries.
C4_EntriesNPlus2 ==
    OnePair =>
        /\ Len(writer.sent) = 1
        /\ Len(writer.sent[1].data) = (PairEnd - PairBegin - 1) + 2

\* C4 amended: with N other records between Begin and End, the BlockData
\* sent has N + 3 entries: the descriptor, Begin, the N records, End.
C4_EntriesNPlus3 ==
    OnePair =>
        /\ Len(writer.sent) = 1
        /\ Len(writer.sent[1].data) = (PairEnd - PairBegin - 1) + 3

\* two records between Begin and End
C4_Witness ==
    /\ OnePair
    /\ PairEnd - PairBegin - 1 = 2
    /\ Len(writer.sent) = 1
    /\ Len(writer.sent[1].data) = 5

Last(q) == q[Len(q)]

\* what later calls of the writer depend on
WriterFields(st) ==
    <<st.buffer, st.inside_block, st.current_block, st.partial_buf, st.panicked>>

\* C5: drop under load. A write that processes a record leaves the fields
\* of the writer as the same write would have left them with room in the
\* channel; when the record is an End and the channel is full, the call
\* still completes as a write, does not panic, refuses the group and
\* leaves the queue as it was.
C5_DropUnderLoad ==
    [][writer'.dispatched # writer.dispatched =>
          /\ WriterFields(writer') =
                 WriterFields(WriteAll([writer EXCEPT !.channel = <<>>],
                                       LoadChunk, now))
          /\ (Len(writer.channel) = Capacity /\ IsEndValue(Last(writer'.dispatched)))
                 => /\ writer'.channel = writer.channel
                    /\ writer'.dropped =
                           Append(writer.dropped,
                                  [block_num |-> writer.current_block,
                                   data |-> writer'.buffer])
                    /\ writer'.sent = writer.sent
                    /\ ~writer'.inside_block
                    /\ writer'.current_block = None
                    /\ ~writer'.panicked
                    /\ lastOp' = "write"]_vars

\* a group was refused and, after the consumer made room, the next block
\* was grouped and sent
C5_Witness ==
    /\ Len(writer.dropped) = 1
    /\ Len(writer.sent) = Capacity + 1
    /\ Last(writer.sent).data[2] = ToJsonString(Dispatched[Len(Dispatched) - 1])

\* C6: the channel is a FIFO queue of at most Capacity BlockData. A group
\* is refused only when the queue holds Capacity values; a group that is
\* taken goes to the tail of the queue as it was built, and the consumer
\* takes the head.
C6_ChannelBounded ==
    /\ [](Len(writer.channel) <= Capacity)
    /\ [][/\ writer'.dropped # writer.dropped
              => Len(writer.channel) = Capacity /\ writer'.channel = writer.channel
          /\ writer'.sent # writer.sent
              => /\ writer'.sent = Append(writer.sent, Last(writer'.channel))
                 /\ writer'.channel = Append(writer.channel, Last(writer'.sent))
                 /\ Last(writer'.sent) = [block_num |-> writer.current_block,
                                          data |-> writer'.buffer]
          /\ written' # written
              => /\ Last(written').block_data = Head(writer.channel)
                 /\ writer'.channel = Tail(writer.channel)]_vars

C6_Witness ==
    /\ Len(writer.channel) = Capacity
    /\ writer.dropped # <<>>

\* the positions of the End records that closed a block: a Begin came
\* before with no End in between
ClosingEnds ==
    {e \in EndPositions :
        \E b \in BeginPositions :
            b < e /\ \A x \in EndPositions : ~(b < x /\ x < e)}

\* the k-th of them
ClosingEnd(k) ==
    CHOOSE e \in ClosingEnds : Cardinality({x \in ClosingEnds : x <= e}) = k

\* C7: cross-block ordering. The groups are sent in the order in which
\* their End records were processed, the consumer receives them in that
\* order, and what is still queued is the rest of them in that order.
C7_CompletionOrder ==
    /\ Len(writer.sent) + Len(writer.dropped) = Cardinality(ClosingEnds)
    /\ writer.dropped = <<>>
           => \A k \in 1..Len(writer.sent) :
                  Last(writer.sent[k].data) =
                      ToJsonString(Dispatched[ClosingEnd(k)])
    /\ Len(written) <= Len(writer.sent)
    /\ \A k \in 1..Len(written) : written[k].block_data = writer.sent[k]
    /\ writer.channel = SubSeq(writer.sent, Len(written) + 1, Len(writer.sent))

\* two blocks were completed while the consumer had taken none, and both
\* have been received since
C7_Witness ==
    /\ Len(written) = 2
    /\ Len(writer.sent) = 2
    /\ files # <<>>

\* the file name the output directory contract gives a block
ContractName(block_num) ==
    IF block_num = Some("42") THEN "block_42.json"
    ELSE IF block_num = Some("7") THEN "block_7.json"
    ELSE "block_unknown.json"

\* the turns of the consumer in which the file was created
Created == {k \in 1..Len(written) : written[k].outcome # "create_failed"}

\* the last turn that created the file called name
LastCreated(name) ==
    CHOOSE k \in Created :
        /\ ContractName(written[k].block_data.block_num) = name
        /\ \A j \in Created :
               ContractName(written[j].block_data.block_num) = name => j <= k

Stamp(block_data) == block_data.data[1][7]

\* the position, in the run, of a record that carries "ts":i
TsIndex(text) ==
    CHOOSE i \in 1..Len(Dispatched) : \E j \in 1..Len(text) : text[j] = Ts(i)

\* the clock reading at which the Begin record of a group was processed
BeginTime(block_data) == writer.times[TsIndex(block_data.data[2])]

\* C10 as stated: the descriptors of two consecutive blocks carry
\* different timestamps.
C10_StampsDiffer ==
    \A k \in 1..(Len(writer.sent) - 1) :
        Stamp(writer.sent[k]) # Stamp(writer.sent[k + 1])

\* C10 amended: the descriptor of every group carries the millisecond
\* clock reading at which its own Begin was processed; the timestamps of
\* two consecutive blocks differ exactly when the reading changed between
\* their Begins.
C10_StampIsBeginTime ==
    /\ \A k \in 1..Len(writer.sent) :
           Stamp(writer.sent[k]) =
               TimestampMember(ToString(BeginTime(writer.sent[k])))
    /\ \A k \in 1..(Len(writer.sent) - 1) :
           Stamp(writer.sent[k]) # Stamp(writer.sent[k + 1])
               <=> BeginTime(writer.sent[k]) # BeginTime(writer.sent[k + 1])

\* two consecutive blocks opened at different clock readings
C10_Witness ==
    /\ Len(writer.sent) = 2
    /\ BeginTime(writer.sent[1]) < BeginTime(writer.sent[2])
    /\ Stamp(writer.sent[2]) = TimestampMember(ToString(now))

\* no End record in the bytes written so far
NoEndWritten == \A i \in 1..Len(Consumed) : Consumed[i] # PhE

\* C8: unterminated block. A flush called when a Begin has been processed
\* and the bytes written hold no End record sends no BlockData (and has
\* none refused).
C8_FlushSendsNothing ==
    [][(nFlush' # nFlush /\ BeginPositions # {} /\ NoEndWritten)
          => writer'.sent = writer.sent /\ writer'.dropped = writer.dropped]_vars

\* a flush has been made on an open block, with no End written
C8_Witness ==
    /\ lastOp = "flush"
    /\ writer.inside_block
    /\ writer.partial_buf = <<>>
    /\ NoEndWritten
    /\ writer.sent = <<>>

BlockBegins(k) ==
    {b \in BeginPositions :
        /\ b < ClosingEnd(k)
        /\ \A x \in EndPositions : ~(b < x /\ x < ClosingEnd(k))}

FirstBegin(k) == CHOOSE b \in BlockBegins(k) : \A x \in BlockBegins(k) : b <= x
LastBegin(k) == CHOOSE b \in BlockBegins(k) : \A x \in BlockBegins(k) : x <= b

\* C12: block identifier tagging. Every BlockData sent carries as block_num
\* the block number in the args of the Begin that opened its block, None
\* when that Begin has none; the Begin that opened the block is the first
\* Begin since the block before was closed or, for the reader who takes a
\* Begin inside a block as a new opening, the Begin the data of the group
\* start with.
C12_TagOfOpeningBegin ==
    \A k \in 1..Len(writer.sent) :
        \/ writer.sent[k].block_num = BlockNumOf(Dispatched[FirstBegin(k)])
        \/ writer.sent[k].block_num = BlockNumOf(Dispatched[LastBegin(k)])

\* C13: file naming. In every turn of the consumer the file created is
\* block_<id>.json of out_dir when the BlockData received has block_num
\* Some(id) and block_unknown.json when it has None: after the turn the
\* file of that name is there and every other file of out_dir is as it
\* was; a turn in which File::create fails leaves out_dir as it was.
C13_FileNaming ==
    [][Len(written') = Len(written) + 1 =>
          LET w == Last(written')
              name == ContractName(w.block_data.block_num)
          IN  /\ w.block_data = Head(writer.channel)
              /\ IF w.outcome = "create_failed" THEN files' = files
                 ELSE /\ DOMAIN files' = DOMAIN files \cup {name}
                      /\ \A n \in DOMAIN files' \ {name} :
                             files'[n] = files[n]]_vars

\* a block of number 7 and a block without number were received, and each
\* has its file
C13_Witness ==
    /\ \E k \in Created : written[k].block_data.block_num = Some("7")
    /\ \E k \in Created : written[k].block_data.block_num = None
    /\ {"block_7.json", "block_unknown.json"} \subseteq DOMAIN files

\* the elements of the JSON array a file holds: the text between "[\n" and
\* "\n]", cut at each ",\n"
Elements(text) == Split(SubSeq(text, 3, Len(text) - 2))

\* the records dispatched from position b to position e, as serde_json
\* writes them
RecordsFrom(b, e) == [i \in 1..(e - b + 1) |-> ToJsonString(Dispatched[b + i - 1])]

C15_LoopSurvivesFailure ==
    /\ host.consumer = "ended" => ChannelClosed(writer) /\ writer.channel = <<>>
    /\ writer.channel # <<>> => host.consumer = "running"
    /\ writer.sent = [k \in 1..Len(written) |-> written[k].block_data]
                         \o writer.channel

\* a turn that failed was followed by a turn that wrote its file
C15_Witness ==
    \E k \in 1..Len(written) :
        /\ written[k].outcome # "ok"
        /\ \E j \in (k + 1)..Len(written) :
               /\ written[j].outcome = "ok"
               /\ ContractName(written[j].block_data.block_num) \in DOMAIN files
        /\ host.consumer = "running"

\* ENABLE_CHROME_TRACE is not set to "true" (in any case of letters) or "1"
FlagOff == ~EnvFlag(environ, "ENABLE_CHROME_TRACE")

\* C16: disabled gate. A call of start() made while ENABLE_CHROME_TRACE is
\* disabled builds no channel and no writer, spawns neither the consumer
\* nor the flusher, leaves chrome_guard None, and leaves out_dir and its
\* files as they were.
C16_DisabledGate ==
    [][(FlagOff /\ host'.starts = host.starts + 1) =>
          /\ host'.channels = host.channels
          /\ writer' = writer
          /\ host'.consumer = "none"
          /\ host'.flusher = "none"
          /\ host'.chrome_guard = None
          /\ host'.dir = host.dir
          /\ files' = files]_vars

\* start() was called with the flag disabled and installed the logging
\* subscriber alone; the file of the earlier run is still in out_dir
C16_Witness ==
    /\ FlagOff
    /\ host.starts >= 1
    /\ host.subscriber = Some("fmt")
    /\ files = host.prior
    /\ files # <<>>

\* run() has been through its reset of out_dir
ResetDone == host.reset # "none"

\* the files of out_dir that were written in this run: the names of the
\* turns of the consumer that created their file
ThisRun == {ContractName(written[k].block_data.block_num) : k \in Created}

C18_FlushIdempotent ==
    [][nFlush' = nFlush + 1 =>
          /\ writer'.partial_buf = <<>>
          /\ ~writer'.panicked
          /\ (writer.partial_buf = <<>> \/ lastOp = "flush") => writer' = writer]_vars

\* the one flush of the run was called inside block 42, after writes that
\* ended with the separator and so left partial_buf empty
C18_Witness ==
    /\ nFlush = 1
    /\ lastOp = "flush"
    /\ Len(Consumed) >= 2
    /\ SubSeq(Consumed, Len(Consumed) - 1, Len(Consumed)) = Separator
    /\ writer.inside_block
    /\ writer.current_block = Some("42")
    /\ Len(writer.buffer) = 2
    /\ writer.partial_buf = <<>>

\* C19: single installation. Whatever calls of start() a process makes, at
\* most one subscriber has been installed, and the process-wide subscriber
\* is that one: a later call of start() neither replaces it nor installs
\* another.
C19_SingleInstallation ==
    /\ Len(host.installed) <= 1
    /\ host.installed = <<>> <=> host.subscriber = None
    /\ host.installed # <<>> => host.subscriber = Some(host.installed[1])
    /\ host.installed # <<>> => host.starts >= 1
    /\ host.start_panics = host.starts - Len(host.installed)

\* start() was called twice: the first call installed the subscriber with
\* the chrome layer, which is still the subscriber after the second
C19_Witness ==
    /\ host.starts = 2
    /\ host.installed = <<"fmt+chrome">>
    /\ host.subscriber = Some("fmt+chrome")
    /\ host.channels = 2

\* the sixteen ways of writing "true" in upper and lower case letters
TrueSpellings ==
    {<<a, b, c, d>> : a \in {"t", "T"}, b \in {"r", "R"},
                      c \in {"u", "U"}, d \in {"e", "E"}}

\* the variable is set to "1" or to one of the spellings of "true"
SetOn(entry) ==
    entry.kind = "set" /\ (entry.v \in TrueSpellings \/ entry.v = <<"1">>)

\* C20: environment flag parsing. env_flag(name) is true exactly when the
\* variable is set to "true" in some case of letters or to "1", and false
\* when it is unset or set to anything else; once start() has been called
\* the tasks of the subsystem have been spawned exactly when
\* ENABLE_CHROME_TRACE is so set.
C20_EnvFlagParsing ==
    /\ \A name \in DOMAIN environ :
           EnvFlag(environ, name) <=> SetOn(environ[name])
    /\ IsEnabled(environ) <=> SetOn(environ["ENABLE_CHROME_TRACE"])
    /\ host.starts >= 1 =>
           /\ host.consumer # "none" <=> SetOn(environ["ENABLE_CHROME_TRACE"])
           /\ host.flusher # "none" <=> SetOn(environ["ENABLE_CHROME_TRACE"])
           /\ host.chrome_guard # None <=> SetOn(environ["ENABLE_CHROME_TRACE"])

\* ENABLE_CHROME_TRACE=tRuE: start() has spawned the tasks
C20_Witness ==
    /\ environ["ENABLE_CHROME_TRACE"] = SetTo(<<"t", "R", "u", "E">>)
    /\ host.starts >= 1
    /\ host.consumer = "running"
    /\ host.subscriber = Some("fmt+chrome")

\* C21: nested Begin. A Begin processed inside a block is appended to the
\* buffer and the block goes on: the data of every BlockData sent hold,
\* after the descriptor, all the records processed from the first Begin of
\* the block to the End that closed it.
C21_NestedBeginContinues ==
    \A k \in 1..Len(writer.sent) :
        Tail(writer.sent[k].data) = RecordsFrom(FirstBegin(k), ClosingEnd(k))

StreamRecords ==
    CHOOSE recs \in SeqsUpTo(WellFormedRecords \cup MalformedRecords, MaxBadRecs) :
        StreamOf(recs) = stream

\* a well-formed record as serde_json writes it back
Canonical(rec) == IF rec = RecB THEN JsonB ELSE rec

\* the well-formed records of the stream, in order
WellFormedOf(recs) ==
    LET good == SelectSeq(recs, LAMBDA r : r \in WellFormedRecords)
    IN  [i \in 1..Len(good) |-> Canonical(good[i])]

DispatchedTexts == [i \in 1..Len(Dispatched) |-> ToJsonString(Dispatched[i])]

IsPrefix(p, q) == Len(p) <= Len(q) /\ SubSeq(q, 1, Len(p)) = p

\* C23: framing-error recovery. A candidate record that does not parse is
\* dropped and the write goes on: at every moment the records dispatched
\* are the first well-formed records of the stream, in order, and once the
\* stream is written and flushed they are all its well-formed records, as
\* if the others were not in the stream.
C23_MalformedSkipped ==
    /\ ~writer.panicked
    /\ IsPrefix(DispatchedTexts, WellFormedOf(StreamRecords))
    /\ (input = <<>> /\ nFlush >= 1) =>
           DispatchedTexts = WellFormedOf(StreamRecords)

\* a stream with a malformed record between two well-formed ones: both
\* were dispatched
C23_Witness ==
    /\ Len(StreamRecords) = 3
    /\ StreamRecords[1] \in WellFormedRecords
    /\ StreamRecords[2] \in MalformedRecords
    /\ StreamRecords[3] \in WellFormedRecords
    /\ Len(Dispatched) = 2

\* runs of commas and line ends around a record
Padding == SeqsUpTo({COMMA, NEWLINE}, 2)

\* the records of which text is one, with nothing but commas and line ends
\* around it
WholeRecords(text) ==
    {r \in SplitRecords :
        \E pre \in Padding, post \in Padding : text = pre \o r \o post}

\* C24: flush semantics. A flush call dispatches PartialBuffer as one record
\* if and only if PartialBuffer, apart from commas and white space around
\* it, is one whole record; it dispatches nothing else, leaves PartialBuffer
\* empty in both cases and returns normally.
C24_FlushSemantics ==
    [][nFlush' = nFlush + 1 =>
          /\ writer'.partial_buf = <<>>
          /\ ~writer'.panicked
          /\ IF WholeRecords(writer.partial_buf) # {}
             THEN /\ Len(writer'.dispatched) = Len(writer.dispatched) + 1
                  /\ SubSeq(writer'.dispatched, 1, Len(writer.dispatched))
                         = writer.dispatched
                  /\ \E r \in WholeRecords(writer.partial_buf) :
                         ToJsonString(Last(writer'.dispatched)) = Canonical(r)
             ELSE writer'.dispatched = writer.dispatched]_vars

\* a first flush came between the bytes of the first record, which was
\* lost, and the closing flush dispatched the Begin record that was left in
\* PartialBuffer
C24_Witness ==
    /\ stream = StreamOf(<<RecX, RecB>>)
    /\ input = <<>>
    /\ lastOp = "flush"
    /\ nFlush = 2
    /\ writer.partial_buf = <<>>
    /\ Len(Dispatched) = 1
    /\ IsBeginValue(Dispatched[1])

\* the positions of text where a separator ends
SepEnds(text) ==
    {k \in 2..Len(text) : text[k - 1] = COMMA /\ text[k] = NEWLINE}

\* the text after the last separator of text, all of it when there is none
AfterLastSep(text) ==
    LET last == IF SepEnds(text) = {} THEN 0
                ELSE CHOOSE k \in SepEnds(text) : \A j \in SepEnds(text) : j <= k
    IN  SubSeq(text, last + 1, Len(text))

\* the bytes handed to the write call of this step
ChunkWritten == SubSeq(input, 1, Len(input) - Len(input'))

\* the chunk without the array bracket at its start and at its end
Unbracketed(chunk) ==
    LET a == IF chunk # <<>> /\ Head(chunk) = LBRACKET THEN 2 ELSE 1
        b == IF Len(chunk) >= a /\ chunk[Len(chunk)] = RBRACKET
             THEN Len(chunk) - 1 ELSE Len(chunk)
    IN  SubSeq(chunk, a, b)

\* PartialBuffer with the chunk of this step appended to it
Accumulated == writer.partial_buf \o Unbracketed(ChunkWritten)

\* C25: retained tail. After every write call PartialBuffer is the text
\* that follows the last separator of the accumulated buffer (the whole of
\* it when it has no separator) and holds no separator; the call dispatches
\* at most one record for each separator of the accumulated buffer, so the
\* text not yet followed by a separator is dispatched by no write call.
C25_RetainedTail ==
    [][(lastOp' = "write" /\ input' # input) =>
          /\ writer'.partial_buf = AfterLastSep(Accumulated)
          /\ SepEnds(writer'.partial_buf) = {}
          /\ Len(writer'.dispatched) - Len(writer.dispatched)
                 <= Cardinality(SepEnds(Accumulated))
          /\ SubSeq(writer'.dispatched, 1, Len(writer.dispatched))
                 = writer.dispatched]_vars

\* the whole first record has been written, with no separator after it: it
\* is PartialBuffer and nothing was dispatched
C25_Witness ==
    /\ lastOp = "write"
    /\ nFlush = 0
    /\ Consumed = <<LBRACKET>> \o RecX
    /\ input # <<>>
    /\ writer.partial_buf = RecX
    /\ Dispatched = <<>>

\* C26: per-block FIFO. Every record dispatched while a block is open is
\* appended at the end of the open group's buffer, which keeps all it held,
\* and the group sent at End is that buffer: between the Begin that opened
\* the block and its End no record is duplicated, reordered or omitted.
C26_PerBlockFifo ==
    [][(writer.inside_block /\ Len(writer'.dispatched) = Len(writer.dispatched) + 1) =>
          /\ writer'.buffer =
                 Append(writer.buffer, ToJsonString(Last(writer'.dispatched)))
          /\ Len(writer'.sent) = Len(writer.sent) + 1 =>
                 Last(writer'.sent).data = writer'.buffer]_vars

\* C27: End transition. A block_profiler End processed inside a block is
\* appended to the group, the group is handed to the channel with the block
\* id, and the writer is left outside any block, with block id None and an
\* empty open-group buffer: it keeps no copy of what it sent.
C27_EndTransition ==
    [][(/\ writer.inside_block
        /\ Len(writer'.dispatched) = Len(writer.dispatched) + 1
        /\ IsEndValue(Last(writer'.dispatched))) =>
          /\ LET group == [block_num |-> writer.current_block,
                            data |-> Append(writer.buffer,
                                            ToJsonString(Last(writer'.dispatched)))]
             IN  \/ /\ writer'.sent = Append(writer.sent, group)
                     /\ writer'.dropped = writer.dropped
                 \/ /\ writer'.dropped = Append(writer.dropped, group)
                     /\ writer'.sent = writer.sent
          /\ ~writer'.inside_block
          /\ writer'.current_block = None
          /\ writer'.buffer = <<>>]_vars

\* C28: configuration error. When the snapshot the writer holds does not
\* parse (it is the empty text start() keeps for a monitor that does not
\* serialize), the step that dispatches a block_profiler Begin ends in a
\* panic: no block is opened, nothing is buffered or sent, and the writer
\* takes no further step.
C28_SnapshotPanic ==
    /\ [][(/\ writer.system_info = <<>>
           /\ Len(writer'.dispatched) = Len(writer.dispatched) + 1
           /\ IsBeginValue(Last(writer'.dispatched))) =>
             /\ writer'.panicked
             /\ writer'.inside_block = writer.inside_block
             /\ writer'.buffer = writer.buffer
             /\ writer'.sent = writer.sent]_vars
    /\ [][writer.panicked => writer' = writer]_vars
    /\ [](writer.panicked => writer.system_info = <<>>)

\* with a snapshot that does not parse an End was dispatched, which is
\* ignored, and then a Begin, which ended the writer
C28_Witness ==
    /\ writer.system_info = <<>>
    /\ writer.panicked
    /\ Len(Dispatched) = 2
    /\ IsEndValue(Dispatched[1])
    /\ IsBeginValue(Dispatched[2])
    /\ writer.buffer = <<>>

\* C29: flusher locking. The flusher holds the lock of the flush guard only
\* around its call of flush and has given it back when it sleeps; it asks
\* for a flush only with the lock held and the guard present; and it never
\* ends: it comes to the flush call and to the sleep again and again.
C29_FlusherLocking ==
    /\ [](host.guard_lock = "flusher" <=> host.flusher_pc \in {"flush", "unlock"})
    /\ [](host.flusher_pc = "sleep" => host.guard_lock = "free")
    /\ [][(host'.flush_pending /\ ~host.flush_pending) =>
             /\ host.chrome_guard # None
             /\ host.guard_lock = "flusher"
             /\ host.flusher_pc = "flush"]_vars
    /\ [](host.flusher = "running")
    /\ []<>(host.flusher_pc = "flush")
    /\ []<>(host.flusher_pc = "sleep")

\* the flusher sleeps with the lock free, after a flush it asked for was
\* served by the backend
C29_Witness ==
    /\ host.flusher_pc = "sleep"
    /\ host.guard_lock = "free"
    /\ nFlush >= 1
    /\ ~host.flush_pending
    /\ Len(Dispatched) >= 1

\* the records the stamped stream was made of
StampedOf == CHOOSE recs \in StampedSeqs : StreamOf(recs) = stream

\* the positions in the stream of the last and of the first byte of the
\* k-th record
RECURSIVE RecEnd(_)
RecEnd(k) ==
    IF k = 0 THEN -1 ELSE RecEnd(k - 1) + Len(Separator) + Len(StampedOf[k])
RecStart(k) == RecEnd(k) - Len(StampedOf[k]) + 1

\* the k-th record as serde_json writes it back
StampedJson(k) ==
    IF StampedOf[k] = BeginRec(k) THEN Object(<<Args42, CatBlock, PhB, Ts(k)>>)
    ELSE StampedOf[k]

\* the places in the stream of the records dispatched, 0 for a value that
\* is no record of the stream
DispatchedIndex ==
    [i \in 1..Len(Dispatched) |->
        LET ks == {k \in 1..Len(StampedOf) : DispatchedTexts[i] = StampedJson(k)}
        IN  IF ks = {} THEN 0 ELSE CHOOSE k \in ks : TRUE]

Delivered(k) == \E i \in 1..Len(Dispatched) : DispatchedIndex[i] = k

\* the stream is written and a flush was the last call
Closed == input = <<>> /\ lastOp = "flush"

\* a flush was called when some but not all bytes of the k-th record had
\* been written
CutAt(k) ==
    /\ k <= Len(StampedOf)
    /\ lastOp = "flush"
    /\ RecStart(k) <= Len(Consumed)
    /\ Len(Consumed) < RecEnd(k)

\* C30 as stated: whatever the points at which flush is called, every
\* record of the stream has been dispatched once the stream is written and
\* flushed.
C30_FlushLosesNothing ==
    Closed => \A k \in 1..Len(StampedOf) : Delivered(k)

\* C30: a flush between two write calls loses nothing when it comes at the
\* end of a record, and loses the record it cuts when it comes between the
\* chunks that carry its halves. The records dispatched are records of the
\* stream, in the order of the stream, none twice; a record is never
\* dispatched once a flush has cut it; and every record no flush has cut has
\* been dispatched when the stream is written and flushed.
C30_FlushLosesCutRecord ==
    /\ [](/\ \A i \in 1..Len(Dispatched) : DispatchedIndex[i] # 0
          /\ \A i \in 1..Len(Dispatched), j \in 1..Len(Dispatched) :
                 i < j => DispatchedIndex[i] < DispatchedIndex[j])
    /\ \A k \in 1..MaxRecs : [](CutAt(k) => [](~Delivered(k)))
    /\ \A k \in 1..MaxRecs :
           \/ <>CutAt(k)
           \/ []((Closed /\ k <= Len(StampedOf)) => Delivered(k))

\* two flushes: one cut the first record, which was lost, the closing one
\* dispatched the second
C30_Witness ==
    /\ Closed
    /\ nFlush = 2
    /\ Len(StampedOf) = 2
    /\ ~Delivered(1)
    /\ Delivered(2)

\* the prewarm_enabled member of the descriptor row of a group
PrewarmMember(block_data) == block_data.data[1][5]

\* C31: prewarm in the descriptor. The descriptor row of every group sent
\* reports prewarm_enabled as the prewarm argument of the start() call that
\* set the writer up, which is the value start() left in the monitor.
C31_PrewarmReported ==
    \A k \in 1..Len(writer.sent) :
        PrewarmMember(writer.sent[k]) =
            BoolMember("prewarm_enabled", host.monitor.prewarm_enabled)

\* C32: id matches contained Begin. Every BlockData sent carries as
\* block_num the args.block_num of the Begin record that is the second
\* entry of its data, None when that record has none, also when a Begin
\* arrived while a block was open.
C32_IdMatchesContainedBegin ==
    \A k \in 1..Len(writer.sent) :
        /\ Len(writer.sent[k].data) >= 2
        /\ IsBeginValue(FromStr(writer.sent[k].data[2]))
        /\ writer.sent[k].block_num = BlockNumOf(FromStr(writer.sent[k].data[2]))

\* the entries of a group's data that are block_profiler Begin or End
\* records
IsBeginText(text) == IsBeginValue(FromStr(text))
IsEndText(text) == IsEndValue(FromStr(text))

\* C33: group well-formedness. Whatever the write and flush calls, every
\* BlockData sent or refused by the channel holds a descriptor, then a
\* block_profiler Begin, then records that are neither a block_profiler
\* Begin nor a block_profiler End, then a block_profiler End: at least three
\* entries.
C33_GroupWellFormed ==
    \A g \in {writer.sent[k] : k \in 1..Len(writer.sent)}
             \cup {writer.dropped[k] : k \in 1..Len(writer.dropped)} :
        LET data == g.data
        IN  /\ Len(data) >= 3
            /\ IsDescriptor(data[1])
            /\ IsBeginText(data[2])
            /\ IsEndText(data[Len(data)])
            /\ \A i \in 3..(Len(data) - 1) :
                   ~IsBeginText(data[i]) /\ ~IsEndText(data[i])

\* a group with a record between its Begin and its End was sent when a
\* flush dispatched the End that waited in partial_buf
C33_Witness ==
    /\ lastOp = "flush"
    /\ Len(writer.sent) = 1
    /\ Len(writer.sent[1].data) = 4
    /\ Len(Dispatched) = 4
    /\ IsEndValue(Dispatched[4])

\* C34: eventual persistence. With the consumer task scheduled fairly, the
\* k-th BlockData the channel accepted is in time the k-th the consumer
\* takes and tries to write to a file: none stays in the queue for ever,
\* none is skipped, and the consumer takes nothing that was not sent.
C34_EventuallyPersisted ==
    /\ \A k \in 1..(MaxEvents \div 2) :
           (Len(writer.sent) >= k) ~>
               (Len(written) >= k /\ written[k].block_data = writer.sent[k])
    /\ [](Len(written) <= Len(writer.sent))
    /\ [](Len(written) + Len(writer.channel) = Len(writer.sent))

\* two groups waited in the queue together and both were taken, the second
\* after a file of the first could not be created
C34_Witness ==
    /\ Len(writer.sent) = 2
    /\ Len(Dispatched) = 4
    /\ Len(written) = 2
    /\ written[1].outcome = "create_failed"
    /\ written[2].block_data = writer.sent[2]
    /\ writer.channel = <<>>

\* the place in the run of the End record that closed a group
EndIndex(block_data) == TsIndex(Last(block_data.data))

\* C35: no leakage after a drop. The step that drops a group because the
\* channel is full leaves the writer outside any block with block id None;
\* and a group sent after a dropped one holds none of the records of the
\* dropped group and carries the block number of its own Begin, None when
\* that Begin has none, not the one of the dropped group.
C35_NoLeakAfterDrop ==
    /\ [][writer'.dropped # writer.dropped =>
             /\ Len(writer.channel) = Capacity
             /\ ~writer'.inside_block
             /\ writer'.current_block = None]_vars
    /\ [](\A d \in 1..Len(writer.dropped), g \in 1..Len(writer.sent) :
              LET lost == writer.dropped[d]
                  later == writer.sent[g]
              IN  EndIndex(later) > EndIndex(lost) =>
                      /\ \A i \in 2..Len(lost.data), j \in 1..Len(later.data) :
                             later.data[j] # lost.data[i]
                      /\ later.block_num = BlockNumOf(FromStr(later.data[2])))

\* the group of block 42 was dropped on a full channel and, after the
\* consumer made room, the next block, which has no number, was sent with
\* block id None
C35_Witness ==
    /\ Len(writer.dropped) = 1
    /\ writer.dropped[1].block_num = Some("42")
    /\ Len(writer.sent) = Capacity + 1
    /\ EndIndex(Last(writer.sent)) = EndIndex(writer.dropped[1]) + 2
    /\ Last(writer.sent).block_num = None

=============================================================================
